---- MODULE Spec2Model ----
(***************************************************************************)
(* aarch64-rt: the primary entry sequence (`entry`), the managed entry     *)
(* (`rust_entry`), the vector installer (`set_exception_vector`), the      *)
(* core bring-up call (`start_core`) with its descriptor layout            *)
(* (`StartCoreStack<F>`), the secondary entry sequence (`secondary_entry`) *)
(* and the closure trampoline (`trampoline<F>`).                           *)
(*                                                                         *)
(* Core 0 is the boot core; the other cores are off until the firmware     *)
(* powers them on.  Every assembly instruction of the two naked entry      *)
(* functions is one action; every statement of the Rust functions is one   *)
(* action.  Register values, addresses and memory words are integers.      *)
(***************************************************************************)
EXTENDS Integers, Naturals, Sequences, FiniteSets, TLC

VARIABLES
    cfg,        \* the build: [N, F, exc, el] (generic parameters and features)
    built,      \* "pending" | "accepted" | "rejected": outcome of the build
    level,      \* exception level the cores execute at
    currentEl,  \* the value `mrs CurrentEL` yields
    budget,     \* how many start_core calls the application will make
    pc,         \* [Cores -> position of the core]
    reg,        \* [Cores -> [Regs -> value]]
    sys,        \* [Cores -> system registers]
    synced,     \* [Cores -> BOOLEAN] isb executed after the cpacr write
    bss,        \* [begin, end, stores]: linker symbols and the stp addresses so far
    mem,        \* memory visible to every core: address -> word
    sbuf,       \* stores of the boot core not yet visible to the other cores
    call,       \* the frame of the start_core call in progress
    ncalls,     \* start_core calls made so far
    inUse,      \* stacks handed to a core that was started
    reqs,       \* the start_core calls the application made, in order
    fw,         \* the firmware calls issued, in order
    rets,       \* the results start_core returned, in order
    targ,       \* [Cores -> start_args_ptr, the trampoline's parameter]
    taken,      \* [Cores -> what the trampoline took out of the slot]
    invoked,    \* [work id -> how many times the unit of work ran]
    installs,   \* [Cores -> completed set_exception_vector calls]
    trace,      \* [Cores -> the steps of the entry sequence, in order]
    bootArgs,   \* x0..x3 as the loader left them
    rargs,      \* the parameters of rust_entry (<<>> before it is entered)
    mainArgs    \* arg0..arg3 as __main received them (<<>> before)

vars == <<cfg, built, level, currentEl, budget, pc, reg, sys, synced, bss, mem, sbuf, call,
          ncalls, inUse, reqs, fw, rets, targ, taken, invoked, installs,
          trace, bootArgs, rargs, mainArgs>>

----------------------------------------------------------------------------
(* Bounds of the model.                                                    *)

MaxArg == 1
MaxPages == 2
MaxCalls == 2
NumSecondary == 1
NumStacks == 2
MaxBootPages == 2
MaxReentries == 1
MaxBssWords == 5
MaxLayoutPages == 4

(* Program constants.                                                      *)

PageSize == 4096
PtrSize == 8
StackAlign == 16
FpenShift == 20
BootStackPages == 40

Cores == 0 .. NumSecondary
SecondaryIds == 1 .. NumSecondary
Regs == {"x0", "x1", "x2", "x3", "x20", "x29", "x30", "sp"}

Max(a, b) == IF a >= b THEN a ELSE b
RoundUp(n, a) == ((n + a - 1) \div a) * a

----------------------------------------------------------------------------
(* Layout: Stack<N>, StackPage, StartCoreStack<F>.                         *)
(* A work type F is [size, align, niche]: size_of::<F>(), align_of::<F>()  *)
(* and whether F has a niche in which Option<F> keeps None.                *)

SizeOfStackPage == PageSize

SizeOfStack(N) == N * SizeOfStackPage

AlignOfStack == PageSize

\* Option<F>: F itself when None fits in a niche of F, otherwise a
\* discriminant placed before the payload, padded to F's alignment.
SizeOfOption(F) ==
    IF F.niche THEN F.size ELSE RoundUp(F.align + F.size, F.align)

\* repr(C): trampoline_ptr at offset 0, entry at the next offset aligned for F.
EntryOffset(F) == RoundUp(PtrSize, F.align)

AlignOfStartCoreStack(F) == Max(StackAlign, F.align)

SizeOfStartCoreStack(F) ==
    RoundUp(EntryOffset(F) + SizeOfOption(F), AlignOfStartCoreStack(F))

\* A faulty variant of the const assertion: compares the closure plus the pointer.
ConstAssertClosureOnly(N, F) == PtrSize + F.size <= SizeOfStack(N)

\* const { assert!(size_of::<StartCoreStack<F>>() <= size_of::<Stack<N>>()) }
ConstAssert(N, F) == SizeOfStartCoreStack(F) <= SizeOfStack(N)

----------------------------------------------------------------------------
(* Addresses.  Code addresses are the source lines of the instructions.    *)

EntryRet == 29              \* return address of `bl enable_mmu` in entry
SecondaryEntryAddr == 62    \* secondary_entry
SecondaryRet == 66          \* return address of `bl enable_mmu` in secondary_entry
SecondarySevRet == 77       \* return address of `bl set_exception_vector`
TrampolineAddr == 278       \* trampoline::<F>
BootStackBase == 1048576    \* start of the output section .stack.boot_stack

\* entry!($name) without a size argument; entry!($name, P) gives P.
NoSizeArg == -1

\* A faulty variant of the macro's first arm: the size argument is dropped.
EntryMacroPagesFixed(arg) == BootStackPages

\* ($name:path) => entry!($name, 40); ($name:path, $boot_stack_pages:expr)
EntryMacroPages(arg) == IF arg = NoSizeArg THEN BootStackPages ELSE arg

\* A static is placed at the next address aligned for its type.
Place(loc, align) == RoundUp(loc, align)

\* static __BOOT_STACK: Stack<$boot_stack_pages>, cfg.loc bytes of the
\* section being taken when it is placed.
BootStack ==
    [base |-> Place(BootStackBase + cfg.loc, AlignOfStack),
     size |-> SizeOfStack(EntryMacroPages(cfg.pages))]

BootStackEnd == BootStack.base + BootStack.size

VectorTable(l) == 2048 * l  \* vector_table_el<l>

\* Stack i of the application: each a multiple of 4096, the second one not
\* a multiple of 8192.
StackBase(i) == 65536 * i + 4096 * (i - 1)

\* The stack pointers the application may pass: aligned stacks, and one
\* pointer that is not aligned for Stack<N>.
StackPtrs == {StackBase(i) : i \in 1 .. NumStacks} \cup {StackBase(1) + 8}

IsAligned(p) == p % AlignOfStack = 0

ReadMem(m, a) == IF a \in DOMAIN m THEN m[a] ELSE 0

----------------------------------------------------------------------------
(* Instruction semantics.                                                  *)

RECURSIVE BitOr(_, _)
BitOr(a, b) ==
    IF a = 0 THEN b
    ELSE IF b = 0 THEN a
    ELSE Max(a % 2, b % 2) + 2 * BitOr(a \div 2, b \div 2)

FpenMask == 3 * 2 ^ FpenShift       \* #(0x3 << 20)

Fpen(v) == (v \div 2 ^ FpenShift) % 4

\* mrs {current_el}, CurrentEL
CurrentEL == currentEl

\* The trap-on-floating-point-access configuration of level l is clear:
\* CPACR_EL1.FPEN = 0b11 at EL1, CPTR_EL2.TFP = 0 at EL2 (HCR_EL2.E2H = 0),
\* CPTR_EL3.TFP = 0 at EL3.
TrapClear(s, l) ==
    CASE l = 1 -> Fpen(s.cpacr) = 3
      [] l = 2 -> ~s.tfp2
      [] l = 3 -> ~s.tfp3
      [] OTHER -> FALSE

SetReg(c, r, v) == reg' = [reg EXCEPT ![c][r] = v]

Goto(c, from, to) ==
    /\ pc[c] = from
    /\ pc' = [pc EXCEPT ![c] = to]
    /\ trace' = [trace EXCEPT ![c] = Append(@, from)]

----------------------------------------------------------------------------
(* The initial state: the image is not built yet, every core is off.       *)

NoCall == [mpidr |-> 0, stack |-> 0, work |-> 0, stack_end |-> 0]

ResetRegs == [r \in Regs |-> 0]

\* CurrentEL holds the exception level in bits [3:2]; `reserved` are the
\* values of its other bits.
InitRead(builds, argvals, levels, resets, regions, budgets, reserved) ==
    /\ cfg \in builds
    /\ built = "pending"
    /\ level \in levels
    /\ currentEl \in {level * 4 + r : r \in reserved}
    /\ cfg.el \in {0, level}
    /\ budget \in budgets
    /\ pc = [c \in Cores |-> "off"]
    /\ bootArgs \in [1 .. 4 -> argvals]
    /\ reg = [c \in Cores |->
                IF c = 0
                THEN [ResetRegs EXCEPT !["x0"] = bootArgs[1], !["x1"] = bootArgs[2],
                                       !["x2"] = bootArgs[3], !["x3"] = bootArgs[4]]
                ELSE ResetRegs]
    /\ \E r \in resets :
          sys = [c \in Cores |->
                   [cpacr |-> r.cpacr, tfp2 |-> r.tfp2, tfp3 |-> r.tfp3,
                    vbar |-> [l \in 1 .. 3 |-> 0]]]
    /\ synced = [c \in Cores |-> FALSE]
    /\ \E b \in regions : bss = [begin |-> b[1], end |-> b[2], stores |-> {}]
    /\ mem = <<>>
    /\ sbuf = {}
    /\ call = NoCall
    /\ ncalls = 0
    /\ inUse = {}
    /\ reqs = <<>>
    /\ fw = <<>>
    /\ rets = <<>>
    /\ targ = [c \in Cores |-> 0]
    /\ taken = [c \in Cores |-> 0]
    /\ invoked = [w \in 1 .. MaxCalls |-> 0]
    /\ installs = [c \in Cores |-> 0]
    /\ trace = [c \in Cores |-> <<>>]
    /\ rargs = <<>>
    /\ mainArgs = <<>>

\* A closure that captures one reference: 8 bytes, 8-aligned, with a niche.
RefClosure == [size |-> 8, align |-> 8, niche |-> TRUE]

\* A closure that captures a value of a type with repr(align(8192)).
OverAligned == [size |-> 8192, align |-> 8192, niche |-> TRUE]

\* The work types around the const assertion's limit for a stack of N pages.
WorkTypes(N) ==
    {F \in [size : {0, 8, 16, SizeOfStack(N) - 32, SizeOfStack(N) - 16,
                    SizeOfStack(N) - 8, SizeOfStack(N), SizeOfStack(N) + 8},
            align : {1, 8, 16, 32}, niche : BOOLEAN] :
        /\ F.size % F.align = 0
        /\ F.size = 0 => ~F.niche}

Features == {[exc |-> FALSE, el |-> 0]} \cup [exc : {TRUE}, el : 0 .. 3]

Build(N, F, feat) ==
    [N |-> N, F |-> F, exc |-> feat.exc, el |-> feat.el, pages |-> NoSizeArg,
     loc |-> 0]

RuntimeEl == [exc |-> TRUE, el |-> 0]

\* The architecture keeps the bits of CurrentEL outside [3:2] zero.
InitWith(builds, argvals, levels, resets, regions, budgets) ==
    InitRead(builds, argvals, levels, resets, regions, budgets, {0})

\* Values of the bits of a CurrentEL readout below and above [3:2].
ReservedBits == {0, 3, 16, 2 ^ 30 + 1}

\* The bytes of .stack.boot_stack taken before __BOOT_STACK is placed.
LinkOffsets == {0, StackAlign, PageSize - PtrSize}

\* The builds of entry!(main) and of entry!(main, P) for every P.
BootStackBuilds ==
    {[Build(1, RefClosure, RuntimeEl) EXCEPT !.pages = p, !.loc = l] :
        p \in {NoSizeArg} \cup 0 .. MaxBootPages, l \in LinkOffsets}

ResetStates == [cpacr : {0, 2 ^ FpenShift, FpenMask, 2 ^ 28}, tfp2 : BOOLEAN,
                tfp3 : BOOLEAN]

QuietReset == [cpacr |-> 0, tfp2 |-> FALSE, tfp3 |-> FALSE]

DefaultRegion == <<256, 288>>

\* bss_begin and bss_end as the link may define them: begin <= end, each a
\* multiple of 8, up to MaxBssWords words apart.
BssRegions ==
    {<<b, b + 8 * k>> : b \in {256, 264}, k \in 0 .. MaxBssWords}

DefaultArgs == {7}

----------------------------------------------------------------------------
(* The build: the const assertion of start_core decides whether the image  *)
(* exists; the loader then enters `entry` on the boot core.                *)

BuildImage ==
    /\ built = "pending"
    /\ built' = IF ConstAssert(cfg.N, cfg.F) THEN "accepted" ELSE "rejected"
    /\ pc' = IF ConstAssert(cfg.N, cfg.F) THEN [pc EXCEPT ![0] = "e27"] ELSE pc
    /\ UNCHANGED <<cfg, level, currentEl, budget, reg, sys, synced, bss, mem, sbuf, call,
                   ncalls, inUse, reqs, fw, rets, targ, taken, invoked, installs, trace,
                   bootArgs, rargs, mainArgs>>

----------------------------------------------------------------------------
(* entry (entry.rs 21-49), one action per instruction.                     *)

\* enable_mmu without the initial-pagetable feature: `ret`.
EnableMmuStub(c) == UNCHANGED <<sys, mem>>

\* bl enable_mmu
Entry_bl_enable_mmu ==
    /\ Goto(0, "e27", "e29")
    /\ SetReg(0, "x30", EntryRet)
    /\ EnableMmuStub(0)
    /\ UNCHANGED <<cfg, built, level, currentEl, budget, synced, bss, sbuf, call, ncalls,
                   inUse, reqs, fw, rets, targ, taken, invoked, installs, bootArgs, rargs,
                   mainArgs>>

\* mrs x30, cpacr_el1
Entry_mrs ==
    /\ Goto(0, "e29", "e30")
    /\ SetReg(0, "x30", sys[0].cpacr)
    /\ UNCHANGED <<cfg, built, level, currentEl, budget, sys, synced, bss, mem, sbuf, call,
                   ncalls, inUse, reqs, fw, rets, targ, taken, invoked, installs, bootArgs,
                   rargs, mainArgs>>

\* orr x30, x30, #(0x3 << 20)
Entry_orr ==
    /\ Goto(0, "e30", "e31")
    /\ SetReg(0, "x30", BitOr(reg[0]["x30"], FpenMask))
    /\ UNCHANGED <<cfg, built, level, currentEl, budget, sys, synced, bss, mem, sbuf, call,
                   ncalls, inUse, reqs, fw, rets, targ, taken, invoked, installs, bootArgs,
                   rargs, mainArgs>>

\* msr cpacr_el1, x30
Entry_msr ==
    /\ Goto(0, "e31", "e32")
    /\ sys' = [sys EXCEPT ![0].cpacr = reg[0]["x30"]]
    /\ synced' = [synced EXCEPT ![0] = FALSE]
    /\ UNCHANGED <<cfg, built, level, currentEl, budget, reg, bss, mem, sbuf, call, ncalls,
                   inUse, reqs, fw, rets, targ, taken, invoked, installs, bootArgs, rargs,
                   mainArgs>>

\* isb
Entry_isb ==
    /\ Goto(0, "e32", "e34")
    /\ synced' = [synced EXCEPT ![0] = TRUE]
    /\ UNCHANGED <<cfg, built, level, currentEl, budget, reg, sys, bss, mem, sbuf, call,
                   ncalls, inUse, reqs, fw, rets, targ, taken, invoked, installs, bootArgs,
                   rargs, mainArgs>>

\* adr_l x29, bss_begin
Entry_adr_bss_begin ==
    /\ Goto(0, "e34", "e35")
    /\ SetReg(0, "x29", bss.begin)
    /\ UNCHANGED <<cfg, built, level, currentEl, budget, sys, synced, bss, mem, sbuf, call,
                   ncalls, inUse, reqs, fw, rets, targ, taken, invoked, installs, bootArgs,
                   rargs, mainArgs>>

\* adr_l x30, bss_end
Entry_adr_bss_end ==
    /\ Goto(0, "e35", "e37")
    /\ SetReg(0, "x30", bss.end)
    /\ UNCHANGED <<cfg, built, level, currentEl, budget, sys, synced, bss, mem, sbuf, call,
                   ncalls, inUse, reqs, fw, rets, targ, taken, invoked, installs, bootArgs,
                   rargs, mainArgs>>


\* A faulty variant of the loop's condition: b.hi, unsigned higher.
Bhi(a, b) == a > b

\* cmp a, b ; b.hs: taken when a is unsigned higher or same.
Bhs(a, b) == a >= b

\* A faulty variant of the store's post-index: one register's width.
PostIndexWord(a) == a + 8

\* [x29], #16: the address after the store.
PostIndex(a) == a + 16

\* 0: cmp x29, x30 ; b.hs 1f
Entry_cmp_bhs ==
    /\ Goto(0, "e37", IF Bhs(reg[0]["x29"], reg[0]["x30"]) THEN "e43" ELSE "e39")
    /\ UNCHANGED <<cfg, built, level, currentEl, budget, reg, sys, synced, bss, mem, sbuf,
                   call, ncalls, inUse, reqs, fw, rets, targ, taken, invoked, installs,
                   bootArgs, rargs, mainArgs>>

\* stp xzr, xzr, [x29], #16 ; b 0b
Entry_stp ==
    /\ Goto(0, "e39", "e37")
    /\ bss' = [bss EXCEPT !.stores = @ \cup {reg[0]["x29"]}]
    /\ SetReg(0, "x29", PostIndex(reg[0]["x29"]))
    /\ UNCHANGED <<cfg, built, level, currentEl, budget, sys, synced, mem, sbuf, call,
                   ncalls, inUse, reqs, fw, rets, targ, taken, invoked, installs, bootArgs,
                   rargs, mainArgs>>

\* 1: adr_l x30, boot_stack_end
Entry_adr_stack ==
    /\ Goto(0, "e43", "e44")
    /\ SetReg(0, "x30", BootStackEnd)
    /\ UNCHANGED <<cfg, built, level, currentEl, budget, sys, synced, bss, mem, sbuf, call,
                   ncalls, inUse, reqs, fw, rets, targ, taken, invoked, installs, bootArgs,
                   rargs, mainArgs>>

\* mov sp, x30
Entry_mov_sp ==
    /\ Goto(0, "e44", "e46")
    /\ SetReg(0, "sp", reg[0]["x30"])
    /\ UNCHANGED <<cfg, built, level, currentEl, budget, sys, synced, bss, mem, sbuf, call,
                   ncalls, inUse, reqs, fw, rets, targ, taken, invoked, installs, bootArgs,
                   rargs, mainArgs>>


\* A faulty variant of the last instruction: `bl`, which leaves a return
\* address into entry in x30.
Entry_bl_rust_entry ==
    /\ Goto(0, "e46", "r141")
    /\ SetReg(0, "x30", 47)
    /\ rargs' = <<reg[0]["x0"], reg[0]["x1"], reg[0]["x2"], reg[0]["x3"]>>
    /\ UNCHANGED <<cfg, built, level, currentEl, budget, sys, synced, bss, mem, sbuf,
                   call, ncalls, inUse, reqs, fw, rets, targ, taken, invoked, installs,
                   bootArgs, mainArgs>>

\* b rust_entry: rust_entry's parameters are x0..x3 (C calling convention).
Entry_b_rust_entry ==
    /\ Goto(0, "e46", "r141")
    /\ rargs' = <<reg[0]["x0"], reg[0]["x1"], reg[0]["x2"], reg[0]["x3"]>>
    /\ UNCHANGED <<cfg, built, level, currentEl, budget, reg, sys, synced, bss, mem, sbuf,
                   call, ncalls, inUse, reqs, fw, rets, targ, taken, invoked, installs,
                   bootArgs, mainArgs>>

----------------------------------------------------------------------------
(* set_exception_vector (lib.rs 60-138).                                   *)

\* A faulty variant of the detection: the `_` arm returns without a panic.
SevNeverPanics == FALSE

\* The runtime detection meets a level other than 1, 2, 3: panic!("Unexpected EL").
SevPanics == cfg.exc /\ cfg.el = 0 /\ (CurrentEL \div 4) % 4 \notin 1 .. 3

\* The level whose table is installed: the feature's, or the one decoded
\* from CurrentEL (`(current_el >> 2) & 0b11`).
SevLevel == IF cfg.el # 0 THEN cfg.el ELSE (CurrentEL \div 4) % 4

\* adr x9, vector_table_el<l> ; msr vbar_el<l>, x9
SevSys(s) ==
    IF cfg.exc /\ SevLevel \in 1 .. 3
    THEN [s EXCEPT !.vbar[SevLevel] = VectorTable(SevLevel)]
    ELSE s

\* An extern "C" function may leave anything in the caller-saved registers
\* x0..x17: either it leaves x0..x3 alone or it leaves the CurrentEL readout
\* (a local of the runtime detection) in them.  x19..x29 and sp are kept.
SevRegs(r, clobber) ==
    IF clobber
    THEN [r EXCEPT !["x0"] = CurrentEL, !["x1"] = CurrentEL, !["x2"] = CurrentEL,
                   !["x3"] = CurrentEL]
    ELSE r

\* A call of set_exception_vector by core c, returning to address ret.
SetExceptionVector(c, ret) ==
    /\ \E clobber \in BOOLEAN :
          reg' = [reg EXCEPT ![c] = SevRegs([@ EXCEPT !["x30"] = ret], clobber)]
    /\ sys' = [sys EXCEPT ![c] = SevSys(@)]
    /\ installs' = [installs EXCEPT ![c] = IF SevPanics THEN @ ELSE @ + 1]

----------------------------------------------------------------------------
(* rust_entry (lib.rs 140-143).                                            *)

RustEntrySevRet == 142

\* A faulty variant of rust_entry: __main is entered without installing the vectors.
RustEntry_skip_set_exception_vector ==
    /\ Goto(0, "r141", "r142")
    /\ UNCHANGED <<cfg, built, level, currentEl, budget, reg, sys, synced, bss, mem, sbuf,
                   call, ncalls, inUse, reqs, fw, rets, targ, taken, invoked, installs,
                   bootArgs, rargs, mainArgs>>

\* set_exception_vector();
RustEntry_set_exception_vector ==
    /\ Goto(0, "r141", IF SevPanics THEN "panicked" ELSE "r142")
    /\ SetExceptionVector(0, RustEntrySevRet)
    /\ UNCHANGED <<cfg, built, level, currentEl, budget, synced, bss, mem, sbuf, call,
                   ncalls, inUse, reqs, fw, rets, targ, taken, invoked, bootArgs, rargs,
                   mainArgs>>

\* A faulty variant of rust_entry: arg0 and arg1 change places.
MainArgsSwapped(a) == <<a[2], a[1], a[3], a[4]>>

\* The arguments rust_entry passes on.
MainArgsOf(a) == <<a[1], a[2], a[3], a[4]>>

\* __main(arg0, arg1, arg2, arg3)
RustEntry_main ==
    /\ Goto(0, "r142", "main")
    /\ mainArgs' = MainArgsOf(rargs)
    /\ reg' = [reg EXCEPT ![0]["x0"] = MainArgsOf(rargs)[1],
                          ![0]["x1"] = MainArgsOf(rargs)[2],
                          ![0]["x2"] = MainArgsOf(rargs)[3],
                          ![0]["x3"] = MainArgsOf(rargs)[4]]
    /\ UNCHANGED <<cfg, built, level, currentEl, budget, sys, synced, bss, mem, sbuf, call,
                   ncalls, inUse, reqs, fw, rets, targ, taken, invoked, installs,
                   bootArgs, rargs>>

----------------------------------------------------------------------------
(* The application on the boot core calls start_core (lib.rs 238-275).     *)

\* The application calls start_core::<C, F, N>(mpidr, stack, rust_entry).
\* The caller keeps a stack exclusive to the core started on it.
Main_start_core ==
    /\ pc[0] = "main"
    /\ ncalls < budget
    /\ \E m \in SecondaryIds, s \in StackPtrs \ inUse :
          call' = [mpidr |-> m, stack |-> s, work |-> ncalls + 1, stack_end |-> 0]
    /\ reqs' = Append(reqs, [mpidr |-> call'.mpidr, stack |-> call'.stack,
                              before |-> mem])
    /\ ncalls' = ncalls + 1
    /\ pc' = [pc EXCEPT ![0] = "sc255"]
    /\ UNCHANGED <<cfg, built, level, currentEl, budget, reg, sys, synced, bss, mem, sbuf,
                   inUse, fw, rets, targ, taken, invoked, installs, trace,
                   bootArgs, rargs, mainArgs>>

\* assert!(stack.is_aligned());
Sc_assert_aligned ==
    /\ pc[0] = "sc255"
    /\ pc' = [pc EXCEPT ![0] = IF IsAligned(call.stack) THEN "sc256" ELSE "panicked"]
    /\ UNCHANGED <<cfg, built, level, currentEl, budget, reg, sys, synced, bss, mem, sbuf,
                   call, ncalls, inUse, reqs, fw, rets, targ, taken, invoked, installs,
                   trace, bootArgs, rargs, mainArgs>>

\* let stack_end = stack.wrapping_add(1) as *mut StartCoreStack<F>;
Sc_stack_end ==
    /\ pc[0] = "sc256"
    /\ pc' = [pc EXCEPT ![0] = "sc261"]
    /\ call' = [call EXCEPT !.stack_end = call.stack + SizeOfStack(cfg.N)]
    /\ UNCHANGED <<cfg, built, level, currentEl, budget, reg, sys, synced, bss, mem, sbuf,
                   ncalls, inUse, reqs, fw, rets, targ, taken, invoked, installs, trace,
                   bootArgs, rargs, mainArgs>>

\* stack_end.wrapping_sub(1): one StartCoreStack<F> below stack_end.
DescriptorAddr(stack_end, F) == stack_end - SizeOfStartCoreStack(F)

\* A faulty variant of the descriptor write: the entry field is left out.
DescriptorStoresNoEntry(d, F, work) == {<<d, TrampolineAddr>>}

\* The words of StartCoreStack { trampoline_ptr: trampoline::<F>, entry:
\* Some(rust_entry) } at address d; the work id stands for Some(work), 0 for None.
DescriptorStores(d, F, work) ==
    {<<d, TrampolineAddr>>, <<d + EntryOffset(F), work>>}

\* *stack_end.wrapping_sub(1) = StartCoreStack { .. };
\* The assignment through a pointer that is not aligned for StartCoreStack<F>
\* is undefined: the build either performs the stores or stops at the
\* misaligned dereference.
Sc_write_descriptor ==
    /\ pc[0] = "sc261"
    /\ LET d == DescriptorAddr(call.stack_end, cfg.F)
       IN  \E stops \in {FALSE} \cup {d % AlignOfStartCoreStack(cfg.F) # 0} :
              IF stops
              THEN /\ pc' = [pc EXCEPT ![0] = "panicked"]
                   /\ sbuf' = sbuf
              ELSE /\ pc' = [pc EXCEPT ![0] = "sc268"]
                   /\ sbuf' = sbuf \cup DescriptorStores(d, cfg.F, call.work)
    /\ UNCHANGED <<cfg, built, level, currentEl, budget, reg, sys, synced, bss, mem, call,
                   ncalls, inUse, reqs, fw, rets, targ, taken, invoked, installs, trace,
                   bootArgs, rargs, mainArgs>>

\* The memory system completes one store of the boot core, in any order.
StoreCompletes ==
    /\ \E s \in sbuf :
          /\ mem' = (s[1] :> s[2]) @@ mem
          /\ sbuf' = sbuf \ {s}
    /\ UNCHANGED <<cfg, built, level, currentEl, budget, pc, reg, sys, synced, bss, call,
                   ncalls, inUse, reqs, fw, rets, targ, taken, invoked, installs, trace,
                   bootArgs, rargs, mainArgs>>

\* A faulty variant of dsb_st: no barrier.
DsbStMissing == TRUE

\* dsb st: completes when every earlier store of this core has completed.
DsbSt == sbuf = {}

\* dsb_st();
Sc_dsb_st ==
    /\ pc[0] = "sc268"
    /\ DsbSt
    /\ pc' = [pc EXCEPT ![0] = "sc270"]
    /\ UNCHANGED <<cfg, built, level, currentEl, budget, reg, sys, synced, bss, mem, sbuf,
                   call, ncalls, inUse, reqs, fw, rets, targ, taken, invoked, installs,
                   trace, bootArgs, rargs, mainArgs>>

\* PSCI CPU_ON as the firmware answers it: ALREADY_ON for a core that is on,
\* otherwise success or a refusal.
CpuOnOutcomes(m) ==
    IF pc[m] # "off" THEN {"AlreadyOn"} ELSE {"Success", "InvalidParameters"}

\* A faulty variant of the firmware call's context argument: the end of the stack.
CpuOnContextStackEnd == call.stack_end

\* stack_end.wrapping_sub(1) as usize as _
CpuOnContext == DescriptorAddr(call.stack_end, cfg.F)

\* A faulty variant of the result: the error is swallowed.
ResultSwallowed(r) == "Success"

\* The value of start_core is the value of smccc::psci::cpu_on.
StartCoreResult(r) == r

\* smccc::psci::cpu_on::<C>(mpidr, secondary_entry, stack_end.wrapping_sub(1))
Sc_cpu_on ==
    /\ pc[0] = "sc270"
    /\ \E r \in CpuOnOutcomes(call.mpidr) :
          /\ fw' = Append(fw, [mpidr |-> call.mpidr, entry |-> SecondaryEntryAddr,
                               ctx |-> CpuOnContext, result |-> r,
                               work |-> call.work, pending |-> sbuf])
          /\ rets' = Append(rets, [work |-> call.work,
                                   result |-> StartCoreResult(r)])
          /\ IF r = "Success"
             THEN /\ pc' = [pc EXCEPT ![0] = "main", ![call.mpidr] = "s64"]
                  /\ reg' = [reg EXCEPT ![call.mpidr]["x0"] = CpuOnContext]
                  /\ inUse' = inUse \cup {call.stack}
             ELSE /\ pc' = [pc EXCEPT ![0] = "main"]
                  /\ UNCHANGED <<reg, inUse>>
    /\ call' = NoCall
    /\ UNCHANGED <<cfg, built, level, currentEl, budget, sys, synced, bss, mem, sbuf, ncalls,
                   reqs, targ, taken, invoked, installs, trace, bootArgs, rargs,
                   mainArgs>>

----------------------------------------------------------------------------
(* secondary_entry (entry.rs 62-80), one action per instruction.           *)

\* bl enable_mmu
Sec_bl_enable_mmu(c) ==
    /\ Goto(c, "s64", "s66")
    /\ SetReg(c, "x30", SecondaryRet)
    /\ EnableMmuStub(c)
    /\ UNCHANGED <<cfg, built, level, currentEl, budget, synced, bss, sbuf, call, ncalls,
                   inUse, reqs, fw, rets, targ, taken, invoked, installs, bootArgs,
                   rargs, mainArgs>>

\* mrs x30, cpacr_el1
Sec_mrs(c) ==
    /\ Goto(c, "s66", "s67")
    /\ SetReg(c, "x30", sys[c].cpacr)
    /\ UNCHANGED <<cfg, built, level, currentEl, budget, sys, synced, bss, mem, sbuf, call,
                   ncalls, inUse, reqs, fw, rets, targ, taken, invoked, installs,
                   bootArgs, rargs, mainArgs>>

\* orr x30, x30, #(0x3 << 20)
Sec_orr(c) ==
    /\ Goto(c, "s67", "s68")
    /\ SetReg(c, "x30", BitOr(reg[c]["x30"], FpenMask))
    /\ UNCHANGED <<cfg, built, level, currentEl, budget, sys, synced, bss, mem, sbuf, call,
                   ncalls, inUse, reqs, fw, rets, targ, taken, invoked, installs,
                   bootArgs, rargs, mainArgs>>

\* msr cpacr_el1, x30
Sec_msr(c) ==
    /\ Goto(c, "s68", "s69")
    /\ sys' = [sys EXCEPT ![c].cpacr = reg[c]["x30"]]
    /\ synced' = [synced EXCEPT ![c] = FALSE]
    /\ UNCHANGED <<cfg, built, level, currentEl, budget, reg, bss, mem, sbuf, call, ncalls,
                   inUse, reqs, fw, rets, targ, taken, invoked, installs, bootArgs,
                   rargs, mainArgs>>

\* isb
Sec_isb(c) ==
    /\ Goto(c, "s69", "s71")
    /\ synced' = [synced EXCEPT ![c] = TRUE]
    /\ UNCHANGED <<cfg, built, level, currentEl, budget, reg, sys, bss, mem, sbuf, call,
                   ncalls, inUse, reqs, fw, rets, targ, taken, invoked, installs,
                   bootArgs, rargs, mainArgs>>

\* mov sp, x0
Sec_mov_sp(c) ==
    /\ Goto(c, "s71", "s73")
    /\ SetReg(c, "sp", reg[c]["x0"])
    /\ UNCHANGED <<cfg, built, level, currentEl, budget, sys, synced, bss, mem, sbuf, call,
                   ncalls, inUse, reqs, fw, rets, targ, taken, invoked, installs,
                   bootArgs, rargs, mainArgs>>


\* A faulty variant of the load: the second word of the descriptor.
LoadAddrSecond(sp) == sp + 8

\* [sp]: the address the branch target is loaded from.
LoadAddr(sp) == sp

\* ldr x20, [sp]: reads the memory visible to this core.
Sec_ldr(c) ==
    /\ Goto(c, "s73", "s75")
    /\ SetReg(c, "x20", ReadMem(mem, LoadAddr(reg[c]["sp"])))
    /\ UNCHANGED <<cfg, built, level, currentEl, budget, sys, synced, bss, mem, sbuf, call,
                   ncalls, inUse, reqs, fw, rets, targ, taken, invoked, installs,
                   bootArgs, rargs, mainArgs>>

\* bl set_exception_vector
Sec_bl_set_exception_vector(c) ==
    /\ Goto(c, "s75", IF SevPanics THEN "panicked" ELSE "s77")
    /\ SetExceptionVector(c, SecondarySevRet)
    /\ UNCHANGED <<cfg, built, level, currentEl, budget, synced, bss, mem, sbuf, call,
                   ncalls, inUse, reqs, fw, rets, targ, taken, invoked, bootArgs, rargs,
                   mainArgs>>

\* br x20: the trampoline is entered with x0 as start_args_ptr; any other
\* target is not code of the image.
Sec_br(c) ==
    /\ Goto(c, "s77", IF reg[c]["x20"] = TrampolineAddr THEN "t286" ELSE "faulted")
    /\ targ' = [targ EXCEPT ![c] = IF reg[c]["x20"] = TrampolineAddr
                                   THEN reg[c]["x0"] ELSE @]
    /\ UNCHANGED <<cfg, built, level, currentEl, budget, reg, sys, synced, bss, mem, sbuf,
                   call, ncalls, inUse, reqs, fw, rets, taken, invoked, installs,
                   bootArgs, rargs, mainArgs>>

----------------------------------------------------------------------------
(* trampoline::<F> (lib.rs 278-293).                                       *)

\* The addresses at which a StartCoreStack<F> was handed to a core.
Descriptors == {fw[i].ctx : i \in 1 .. Len(fw)}

\* A faulty variant of core::mem::take: the slot is read and left as it was.
TakeKeepsSlot(m, slot) == m

\* core::mem::take(&mut start_args.entry) leaves None in the slot.
TakeSlot(m, slot) == (slot :> 0) @@ m

\* let entry = core::mem::take(&mut start_args.entry).expect(..);
\* Dereferencing a pointer that is no descriptor is undefined: the read
\* faults or yields whatever the memory holds.
Tramp_take(c) ==
    /\ pc[c] = "t286"
    /\ \E fault \in {FALSE} \cup {targ[c] \notin Descriptors} :
          IF fault
          THEN /\ pc' = [pc EXCEPT ![c] = "faulted"]
               /\ UNCHANGED <<mem, taken>>
          ELSE /\ LET slot == targ[c] + EntryOffset(cfg.F)
                      e == ReadMem(mem, slot)
                  IN  /\ taken' = [taken EXCEPT ![c] = e]
                      /\ mem' = TakeSlot(mem, slot)
                      /\ pc' = [pc EXCEPT ![c] = IF e = 0 THEN "panicked"
                                                          ELSE "t290"]
    /\ UNCHANGED <<cfg, built, level, currentEl, budget, reg, sys, synced, bss, sbuf, call,
                   ncalls, inUse, reqs, fw, rets, targ, invoked, installs, trace,
                   bootArgs, rargs, mainArgs>>

\* entry(); the unit of work sets its sentinel, then never returns (as it
\* must) or returns.
Tramp_call(c) ==
    /\ pc[c] = "t290"
    /\ invoked' = [invoked EXCEPT ![taken[c]] = @ + 1]
    /\ \E returns \in BOOLEAN :
          pc' = [pc EXCEPT ![c] = IF returns THEN "t292" ELSE "working"]
    /\ UNCHANGED <<cfg, built, level, currentEl, budget, reg, sys, synced, bss, mem, sbuf,
                   call, ncalls, inUse, reqs, fw, rets, targ, taken, installs, trace,
                   bootArgs, rargs, mainArgs>>

\* A faulty variant of the trampoline's end: it returns to the address in
\* x30, which secondary_entry's `bl set_exception_vector` left there.
Tramp_return(c) ==
    /\ pc[c] = "t292"
    /\ pc' = [pc EXCEPT ![c] = "s77"]
    /\ UNCHANGED <<cfg, built, level, currentEl, budget, reg, sys, synced, bss, mem, sbuf,
                   call, ncalls, inUse, reqs, fw, rets, targ, taken, invoked, installs,
                   trace, bootArgs, rargs, mainArgs>>

\* panic!("rust_entry function passed to start_core should never return");
Tramp_panic(c) ==
    /\ pc[c] = "t292"
    /\ pc' = [pc EXCEPT ![c] = "panicked"]
    /\ UNCHANGED <<cfg, built, level, currentEl, budget, reg, sys, synced, bss, mem, sbuf,
                   call, ncalls, inUse, reqs, fw, rets, targ, taken, invoked, installs,
                   trace, bootArgs, rargs, mainArgs>>

\* How often the trampoline was entered again on core c.
Reentries(c) ==
    Cardinality({i \in DOMAIN trace[c] : trace[c][i] = "working"})

\* The trampoline is an unsafe extern "C" fn whose address stays in the
\* descriptor: code running on the core calls it again with the same
\* start_args_ptr.
Tramp_reenter(c) ==
    /\ Reentries(c) < MaxReentries
    /\ Goto(c, "working", "t286")
    /\ UNCHANGED <<cfg, built, level, currentEl, budget, reg, sys, synced, bss, mem, sbuf,
                   call, ncalls, inUse, reqs, fw, rets, targ, taken, invoked,
                   installs, bootArgs, rargs, mainArgs>>

----------------------------------------------------------------------------
(* The specifications.                                                     *)

Next ==
    \/ BuildImage
    \/ Entry_bl_enable_mmu
    \/ Entry_mrs
    \/ Entry_orr
    \/ Entry_msr
    \/ Entry_isb
    \/ Entry_adr_bss_begin
    \/ Entry_adr_bss_end
    \/ Entry_cmp_bhs
    \/ Entry_stp
    \/ Entry_adr_stack
    \/ Entry_mov_sp
    \/ Entry_b_rust_entry
    \/ RustEntry_set_exception_vector
    \/ RustEntry_main
    \/ Main_start_core
    \/ Sc_assert_aligned
    \/ Sc_stack_end
    \/ Sc_write_descriptor
    \/ StoreCompletes
    \/ Sc_dsb_st
    \/ Sc_cpu_on
    \/ \E c \in SecondaryIds :
          \/ Sec_bl_enable_mmu(c)
          \/ Sec_mrs(c)
          \/ Sec_orr(c)
          \/ Sec_msr(c)
          \/ Sec_isb(c)
          \/ Sec_mov_sp(c)
          \/ Sec_ldr(c)
          \/ Sec_bl_set_exception_vector(c)
          \/ Sec_br(c)
          \/ Tramp_take(c)
          \/ Tramp_call(c)
          \/ Tramp_panic(c)
          \/ Tramp_reenter(c)

\* The bring-up protocol at EL1: every feature set, up to MaxCalls calls.
Init ==
    InitWith({Build(1, RefClosure, f) : f \in Features}, DefaultArgs, {1},
             {QuietReset}, {DefaultRegion}, {MaxCalls})

Spec == Init /\ [][Next]_vars

\* The vector installer: every feature set at every level, one call.
InitVectors ==
    InitWith({Build(1, RefClosure, f) : f \in Features}, DefaultArgs, 1 .. 3,
             {QuietReset}, {DefaultRegion}, {1})

SpecVectors == InitVectors /\ [][Next]_vars

\* The boot arguments: every x0..x3 over 0..MaxArg, one build, one call.
InitArgs ==
    InitWith({Build(1, RefClosure, RuntimeEl)}, 0 .. MaxArg, {1}, {QuietReset},
             {DefaultRegion}, {1})

SpecArgs == InitArgs /\ [][Next]_vars

\* The hardware: every level and every reset value of the trap controls.
InitHw ==
    InitWith({Build(1, RefClosure, RuntimeEl)}, DefaultArgs, 1 .. 3, ResetStates,
             {DefaultRegion}, {1})

SpecHw == InitHw /\ [][Next]_vars

\* The build: every stack size up to MaxPages pages and every work type
\* around the limit.
InitBuild ==
    InitWith(UNION {{Build(N, F, RuntimeEl) : F \in WorkTypes(N)} :
                      N \in 1 .. MaxPages},
             DefaultArgs, {1}, {QuietReset}, {DefaultRegion}, {1})

SpecBuild == InitBuild /\ [][Next]_vars

\* The boot stack: every form of the entry! invocation and every placement.
InitBoot ==
    InitWith(BootStackBuilds, DefaultArgs, {1}, {QuietReset}, {DefaultRegion},
             {1})

SpecBoot == InitBoot /\ [][Next]_vars

\* The runtime detection: every value of the level field, 0 included (a
\* readout no level above EL0 produces), with every value of the other bits.
InitDetect ==
    InitRead({Build(1, RefClosure, RuntimeEl)}, DefaultArgs, 0 .. 3,
             {QuietReset}, {DefaultRegion}, {1}, ReservedBits)

SpecDetect == InitDetect /\ [][Next]_vars

\* The zeroing loop on every region; each core keeps executing.
InitBss ==
    InitWith({Build(1, RefClosure, RuntimeEl)}, DefaultArgs, {1}, {QuietReset},
             BssRegions, {1})

SpecBss == InitBss /\ [][Next]_vars

SpecBssFair == SpecBss /\ WF_vars(Next)

\* The descriptor's place: every stack size up to MaxLayoutPages pages, the
\* work types around the limit and an over-aligned one.
InitLayout ==
    InitWith(UNION {{Build(N, F, RuntimeEl) : F \in WorkTypes(N) \cup {OverAligned}} :
                       N \in 1 .. MaxLayoutPages},
             DefaultArgs, {1}, {QuietReset}, {DefaultRegion}, {1})

SpecLayout == InitLayout /\ [][Next]_vars

----------------------------------------------------------------------------
(* Properties.                                                             *)

EntryPcs == {"e27", "e29", "e30", "e31", "e32", "e34", "e35", "e37", "e39",
             "e43", "e44", "e46"}

TrampolinePcs == {"t286", "t290", "t292", "working"}

\* The firmware call that started core c.
StartOf(c) == CHOOSE i \in 1 .. Len(fw) : fw[i].mpidr = c /\ fw[i].result = "Success"

Started(c) == \E i \in 1 .. Len(fw) : fw[i].mpidr = c /\ fw[i].result = "Success"

\* C1: throughout `entry` x0..x3 hold the values the loader left, and
\* rust_entry and __main receive exactly those four values, in order.
C1_BootArgsPreserved ==
    /\ pc[0] \in EntryPcs =>
          <<reg[0]["x0"], reg[0]["x1"], reg[0]["x2"], reg[0]["x3"]>> = bootArgs
    /\ rargs # <<>> => rargs = bootArgs
    /\ mainArgs # <<>> => mainArgs = bootArgs

C1_Witness ==
    /\ pc[0] = "main"
    /\ mainArgs = bootArgs
    /\ bootArgs[1] # bootArgs[2]
    /\ bss.stores # {}

\* C2: when secondary_entry branches to the trampoline, x0 holds the
\* descriptor-slot address start_core handed to the firmware, so the
\* trampoline receives that address as start_args_ptr.
C2_X0IsDescriptorAtBranch ==
    \A c \in SecondaryIds :
        /\ pc[c] = "s77" => reg[c]["x0"] = fw[StartOf(c)].ctx
        /\ pc[c] = "t286" => targ[c] = fw[StartOf(c)].ctx

\* C3: the descriptor's stores complete, then dsb st, then CPU_ON: no store
\* is pending when the firmware is called, memory holds the whole descriptor
\* then, and a started core reads the trampoline pointer and the Some(work)
\* of its own call.
C3_DescriptorCompleteBeforeCpuOn ==
    /\ pc[0] = "sc270" =>
          /\ sbuf = {}
          /\ ReadMem(mem, CpuOnContext) = TrampolineAddr
          /\ ReadMem(mem, CpuOnContext + EntryOffset(cfg.F)) = call.work
    /\ \A i \in 1 .. Len(fw) : fw[i].pending = {}
    /\ \A c \in SecondaryIds :
          /\ pc[c] \in {"s75", "s77"} \cup TrampolinePcs =>
                reg[c]["x20"] = TrampolineAddr
          /\ pc[c] \in {"t290", "t292", "working"} => taken[c] = fw[StartOf(c)].work

C3_Witness ==
    \E c \in SecondaryIds :
        /\ pc[c] = "t290"
        /\ taken[c] = fw[StartOf(c)].work
        /\ pc[0] = "sc268"
        /\ sbuf # {}

\* C4: start_core returns what the firmware call returned, Ok or the same
\* error; it issues one firmware call per call, and a firmware failure is
\* no fatal error of the caller.
C4_ResultForwarded ==
    /\ Len(rets) = Len(fw)
    /\ \A i \in 1 .. Len(rets) :
          /\ rets[i].result = fw[i].result
          /\ rets[i].work = fw[i].work
          /\ \A j \in 1 .. Len(fw) : fw[j].work = fw[i].work => j = i
    /\ (pc[0] = "panicked" /\ mainArgs # <<>>) =>
          call # NoCall /\ ~IsAligned(call.stack) /\ Len(fw) < ncalls

C4_Witness ==
    /\ Len(rets) = 2
    /\ rets[1].result = "Success"
    /\ rets[2].result = "AlreadyOn"
    /\ pc[0] = "main"

\* C5 as claimed: after a call the firmware answered ALREADY_ON, the words
\* of the descriptor slot are what they were before the call.
C5_SlotUnchangedOnAlreadyOn ==
    (call = NoCall /\ fw # <<>> /\ fw[Len(fw)].result = "AlreadyOn") =>
        LET f == fw[Len(fw)]
            before == reqs[f.work].before
        IN  /\ ReadMem(mem, f.ctx) = ReadMem(before, f.ctx)
            /\ ReadMem(mem, f.ctx + EntryOffset(cfg.F)) =
                  ReadMem(before, f.ctx + EntryOffset(cfg.F))

\* C5 amended: after a call the firmware answered ALREADY_ON, start_core has
\* returned that error, the descriptor slot of the stack it was given holds
\* the new descriptor (it is not restored), and the stack the running core
\* was started on is another one, whose trampoline pointer is untouched.
C5_SlotOverwrittenOnAlreadyOn ==
    (call = NoCall /\ fw # <<>> /\ fw[Len(fw)].result = "AlreadyOn") =>
        LET f == fw[Len(fw)]
            g == fw[StartOf(f.mpidr)]
        IN  /\ rets[Len(rets)].result = "AlreadyOn"
            /\ ReadMem(mem, f.ctx) = TrampolineAddr
            /\ ReadMem(mem, f.ctx + EntryOffset(cfg.F)) = f.work
            /\ reqs[g.work].stack # reqs[f.work].stack
            /\ ReadMem(mem, g.ctx) = TrampolineAddr
            /\ ReadMem(mem, g.ctx + EntryOffset(cfg.F)) \in {0, g.work}

C5_Witness ==
    /\ call = NoCall
    /\ fw # <<>>
    /\ fw[Len(fw)].result = "AlreadyOn"
    /\ ReadMem(reqs[Len(fw)].before, fw[Len(fw)].ctx) = 0
    /\ ReadMem(mem, fw[Len(fw)].ctx) = TrampolineAddr

\* C6 as claimed: a core the firmware started runs the unit of work of its
\* call exactly once: when the core has come to rest, the work's sentinel
\* was set once.
C6_WorkInvokedExactlyOnce ==
    \A c \in SecondaryIds :
        /\ pc[c] \in {"working", "panicked", "faulted"} =>
              invoked[fw[StartOf(c)].work] = 1
        /\ Started(c) => invoked[fw[StartOf(c)].work] <= 1

\* C7: __main is entered, and the trampoline is branched to, only after the
\* core's set_exception_vector call has completed, which happens once per
\* core and after the floating-point setup and the stack pointer.
C7_VectorsBeforeApplication ==
    /\ mainArgs # <<>> => installs[0] = 1
    /\ \A c \in SecondaryIds :
          (pc[c] \in TrampolinePcs \/ taken[c] # 0) => installs[c] = 1
    /\ \A c \in Cores :
          /\ installs[c] <= 1
          /\ installs[c] = 1 =>
                /\ synced[c]
                /\ Fpen(sys[c].cpacr) = 3
                /\ reg[c]["sp"] # 0
                /\ cfg.exc => sys[c].vbar[SevLevel] = VectorTable(SevLevel)

C7_Witness ==
    /\ mainArgs # <<>>
    /\ installs[0] = 1
    /\ \E c \in SecondaryIds : pc[c] = "working" /\ installs[c] = 1
    /\ cfg.exc

\* C8 as claimed: once a core is past the isb of its entry sequence, the
\* floating-point trap configuration of the level it executes at is clear.
C8_FpTrapClearAtCurrentLevel ==
    \A c \in Cores :
        (pc[c] \notin {"off", "e27", "e29", "e30", "e31", "e32",
                       "s64", "s66", "s67", "s68", "s69"}) =>
            /\ synced[c]
            /\ TrapClear(sys[c], level)

\* C9 as claimed: the firmware call carries the requested core, the address
\* of secondary_entry, and the end of the stack region as the context.
C9_ContextIsStackEnd ==
    \A i \in 1 .. Len(fw) :
        /\ fw[i].mpidr = reqs[fw[i].work].mpidr
        /\ fw[i].entry = SecondaryEntryAddr
        /\ fw[i].ctx = reqs[fw[i].work].stack + cfg.N * PageSize

\* C9 amended: the firmware call carries the requested core, the address of
\* secondary_entry, and the address of the descriptor, one StartCoreStack<F>
\* below the end of the stack region, as the context.
C9_ContextIsDescriptor ==
    \A i \in 1 .. Len(fw) :
        /\ fw[i].mpidr = reqs[fw[i].work].mpidr
        /\ fw[i].entry = SecondaryEntryAddr
        /\ fw[i].ctx = reqs[fw[i].work].stack + cfg.N * PageSize
                          - SizeOfStartCoreStack(cfg.F)
        /\ fw[i].ctx < reqs[fw[i].work].stack + cfg.N * PageSize

C9_Witness ==
    /\ Len(fw) = 1
    /\ fw[1].result = "Success"
    /\ SizeOfStartCoreStack(cfg.F) > 16
    /\ fw[1].ctx = reqs[1].stack + cfg.N * PageSize - SizeOfStartCoreStack(cfg.F)

\* C10 as claimed: the build succeeds exactly when size_of::<W>() is at most
\* the stack size minus the size of the trampoline pointer.
C10_AcceptedIffClosureFits ==
    built # "pending" =>
        (built = "accepted" <=> cfg.F.size <= cfg.N * PageSize - PtrSize)

\* C10 amended: the build succeeds exactly when the whole descriptor, the
\* trampoline pointer and Option<W> with its discriminant and padding,
\* rounded up to the descriptor's alignment, is at most the stack size; a W
\* larger than the stack size minus the pointer is always rejected.
C10_AcceptedIffDescriptorFits ==
    built # "pending" =>
        /\ built = "accepted" <=>
              SizeOfStartCoreStack(cfg.F) <= cfg.N * PageSize
        /\ cfg.F.size > cfg.N * PageSize - PtrSize => built = "rejected"

C10_Witness ==
    /\ built = "rejected"
    /\ cfg.F.size <= cfg.N * PageSize - PtrSize

----------------------------------------------------------------------------
\* C11: Stack<N> is exactly N * 4096 bytes and starts at a multiple of 4096;
\* entry!(main) reserves 40 pages (163,840 bytes) of boot stack and
\* entry!(main, P) reserves P pages, up to which the stack pointer is set.
C11_BootStackReservation ==
    built = "accepted" =>
        LET n == IF cfg.pages = NoSizeArg THEN 40 ELSE cfg.pages
        IN  /\ BootStack.size = n * 4096
            /\ BootStack.base % 4096 = 0
            /\ BootStack.base >= BootStackBase + cfg.loc
            /\ cfg.pages = NoSizeArg => BootStack.size = 163840
            /\ SizeOfStack(cfg.N) = cfg.N * 4096
            /\ pc[0] \in {"e46", "r141", "r142", "main"}
                   => reg[0].sp = BootStack.base + n * 4096

C11_Witness ==
    /\ pc[0] = "main"
    /\ cfg.pages = NoSizeArg
    /\ cfg.loc % 4096 # 0
    /\ reg[0].sp - BootStack.base = 163840

\* The entry slot of the descriptor that core c's trampoline was given.
SlotOf(c) == targ[c] + EntryOffset(cfg.F)

\* C12: a second invocation of the trampoline against a descriptor whose
\* slot was consumed ends in the fatal error: it is no silent no-op and no
\* unit of work is ever invoked twice; once taken, the slot stays None.
C12_NoDoubleConsumption ==
    /\ \A w \in DOMAIN invoked : invoked[w] <= 1
    /\ \A c \in SecondaryIds :
          /\ Reentries(c) > 0 /\ pc[c] # "t286" => pc[c] = "panicked"
          /\ targ[c] \in Descriptors /\ pc[c] # "t286"
                => ReadMem(mem, SlotOf(c)) = 0

C12_Witness ==
    \E c \in SecondaryIds :
        /\ Reentries(c) > 0
        /\ pc[c] = "panicked"
        /\ targ[c] \in Descriptors
        /\ \E w \in DOMAIN invoked : invoked[w] = 1

\* The labels of a core that entered the trampoline and has not returned.
InsideTrampoline == TrampolinePcs \cup {"panicked", "faulted"}

\* C13: the trampoline never returns: an empty slot ends in the fatal
\* error, a callable that returns ends in the fatal error, and no step
\* leads from the trampoline back into secondary_entry.
C13_TrampolineNeverReturns ==
    [][\A c \in SecondaryIds :
          /\ pc[c] \in InsideTrampoline => pc'[c] \in InsideTrampoline
          /\ pc[c] = "t286" /\ pc'[c] # pc[c]
                => IF targ[c] \in Descriptors /\ ReadMem(mem, SlotOf(c)) # 0
                   THEN pc'[c] = "t290"
                   ELSE pc'[c] \in {"panicked", "faulted"}
          /\ pc[c] = "t290" /\ pc'[c] # pc[c]
                => /\ invoked'[taken[c]] = invoked[taken[c]] + 1
                   /\ pc'[c] \in {"t292", "working"}
          /\ pc[c] = "t292" /\ pc'[c] # pc[c] => pc'[c] = "panicked"]_vars

C13_Witness ==
    \E c \in SecondaryIds :
        /\ pc[c] = "panicked"
        /\ taken[c] # 0
        /\ invoked[taken[c]] = 1

\* Core c has gone through its call of set_exception_vector.
Detected(c) ==
    \E i \in DOMAIN trace[c] : trace[c][i] \in {"r141", "s75"}

\* C14: with runtime detection the level is bits [3:2] of the CurrentEL
\* readout; 1, 2 or 3 writes vector_table_el<l> to vbar_el<l> and to no other
\* vector base register, 0 panics and installs no table.
C14_RuntimeDetection ==
    cfg.exc /\ cfg.el = 0 =>
        \A c \in Cores :
            LET d == (currentEl \div 4) % 4
            IN  /\ Detected(c) /\ d \in 1 .. 3 =>
                      /\ installs[c] = 1
                      /\ sys[c].vbar =
                            [l \in 1 .. 3 |-> IF l = d THEN VectorTable(d) ELSE 0]
                /\ Detected(c) /\ d = 0 =>
                      /\ pc[c] = "panicked"
                      /\ installs[c] = 0
                      /\ sys[c].vbar = [l \in 1 .. 3 |-> 0]
                /\ ~Detected(c) => sys[c].vbar = [l \in 1 .. 3 |-> 0]

C14_Witness ==
    /\ cfg.exc /\ cfg.el = 0
    /\ currentEl = 3
    /\ Detected(0)
    /\ pc[0] = "panicked"

\* The instructions of entry outside the zeroing loop, in program order,
\* and the first of rust_entry.
EntryOrder == <<"e27", "e29", "e30", "e31", "e32", "e34", "e35", "e43", "e44",
                "e46", "r141">>

LoopPcs == {"e37", "e39"}

IsEntryStep(l) == \E i \in DOMAIN EntryOrder : EntryOrder[i] = l

Executed(c, l) == \E i \in DOMAIN trace[c] : trace[c][i] = l

\* The bytes the zeroing loop has stored to.
Zeroed == UNION {a .. a + 15 : a \in bss.stores}

\* C15: entry performs, each step complete before the next: the MMU hook
\* call, the floating-point trap disable and isb, the bss zeroing, the load
\* of sp from boot_stack_end, the branch to rust_entry.  sp is untouched
\* before it is loaded, x30 holds no return address at rust_entry, and
\* control never comes back into entry.
C15_EntryOrder ==
    LET t == trace[0]
        steps == SelectSeq(t, IsEntryStep)
    IN  /\ Len(steps) <= Len(EntryOrder)
        /\ steps = SubSeq(EntryOrder, 1, Len(steps))
        /\ \A i \in DOMAIN t :
              t[i] \in LoopPcs =>
                  /\ \E j \in 1 .. i - 1 : t[j] = "e35"
                  /\ \A j \in 1 .. i - 1 : t[j] \notin {"e43", "e44", "e46", "r141"}
        /\ Executed(0, "e32") => synced[0] /\ Fpen(sys[0].cpacr) = 3
        /\ Executed(0, "e43") => bss.begin .. bss.end - 1 \subseteq Zeroed
        /\ ~Executed(0, "e44") => reg[0]["sp"] = 0
        /\ Executed(0, "e44") => reg[0]["sp"] = BootStackEnd
        /\ pc[0] = "r141" => reg[0]["x30"] = BootStackEnd
        /\ Executed(0, "e46") => pc[0] \notin EntryPcs

C15_Witness ==
    /\ pc[0] = "r141"
    /\ Executed(0, "e39")
    /\ reg[0]["sp"] = BootStackEnd

\* The addresses of the 16-byte units of [bss_begin, bss_end).
Units == {bss.begin + 16 * k : k \in 0 .. (bss.end - bss.begin) \div 16 - 1}

BssAligned == bss.begin % 16 = 0 /\ bss.end % 16 = 0

\* C16: for 16-byte-aligned bss_begin <= bss_end the loop terminates; it
\* stores 16-byte units from bss_begin on, advancing by 16 while the cursor
\* is below bss_end, and when sp is loaded every byte of the region is zero.
C16_BssZeroed ==
    /\ [](BssAligned =>
            /\ pc[0] \in LoopPcs =>
                  /\ reg[0]["x29"] = bss.begin + 16 * Cardinality(bss.stores)
                  /\ bss.stores = {a \in Units : a < reg[0]["x29"]}
                  /\ reg[0]["x29"] <= bss.end
                  /\ pc[0] = "e39" => reg[0]["x29"] < bss.end
            /\ Executed(0, "e37") /\ pc[0] \notin LoopPcs =>
                  /\ bss.stores = Units
                  /\ Zeroed = bss.begin .. bss.end - 1)
    /\ (BssAligned /\ pc[0] = "e37") ~> Executed(0, "e44")

C16_Witness ==
    /\ BssAligned
    /\ bss.end - bss.begin = 32
    /\ Executed(0, "e44")
    /\ Zeroed = bss.begin .. bss.end - 1

\* The boot core has left the zeroing loop.
BssDone == pc[0] = "e43" \/ Executed(0, "e43")

\* C17: the region is zeroed once, by the boot core, before any other core
\* runs: a secondary core is started only from application code, after the
\* loop has completed, and nothing a secondary core executes stores to the
\* region.
C17_ZeroedOnceBeforeSecondaries ==
    /\ BssDone =>
          /\ bss.stores = Units
          /\ Cardinality({i \in DOMAIN trace[0] : trace[0][i] = "e39"})
                = Cardinality(Units)
    /\ fw # <<>> \/ reqs # <<>> => BssDone /\ mainArgs # <<>>
    /\ \A c \in SecondaryIds :
          /\ pc[c] # "off" \/ trace[c] # <<>> =>
                /\ BssDone
                /\ mainArgs # <<>>
                /\ Started(c)
          /\ \A i \in DOMAIN trace[c] : trace[c][i] \notin EntryPcs
    /\ DOMAIN mem \cap (bss.begin .. bss.end - 1) = {}

C17_Witness ==
    \E c \in SecondaryIds :
        /\ pc[c] = "working"
        /\ bss.stores = Units
        /\ Units # {}

\* C20: the zeroing loop writes no byte outside [bss_begin, bss_end), also
\* when the size of the region is not a multiple of 16.
C20_StoresInsideRegion ==
    Zeroed \subseteq bss.begin .. bss.end - 1

\* C18: the descriptor written by start_core is the last
\* size_of::<StartCoreStack<F>>() bytes of the target stack: it begins at or
\* above the stack's start, ends below the stack's end, and its address is a
\* multiple of 16 and of the alignment of StartCoreStack<F>.
C18_DescriptorInStackTail ==
    \A i \in DOMAIN fw :
        LET d == fw[i].ctx
            base == reqs[i].stack
            size == SizeOfStartCoreStack(cfg.F)
        IN  /\ d + size = base + cfg.N * 4096
            /\ d >= base
            /\ d + size - 1 < base + cfg.N * 4096
            /\ d % 16 = 0
            /\ d % AlignOfStartCoreStack(cfg.F) = 0

\* C19: secondary_entry loads its branch target from the address at which
\* start_core stored trampoline_ptr for that call; the core branches to the
\* trampoline of the descriptor that holds the call's unit of work, and its
\* stack pointer is a multiple of 16.
C19_LayoutAgreed ==
    \A c \in SecondaryIds :
        Executed(c, "s73") =>
            LET k == StartOf(c)
            IN  /\ reg[c]["sp"] = fw[k].ctx
                /\ reg[c]["sp"] \in DOMAIN mem
                /\ mem[reg[c]["sp"]] = TrampolineAddr
                /\ reg[c]["x20"] = TrampolineAddr
                /\ reg[c]["sp"] % 16 = 0
                /\ pc[c] \in {"s75", "s77", "t286"} /\ Reentries(c) = 0
                      => ReadMem(mem, reg[c]["sp"] + EntryOffset(cfg.F))
                            = fw[k].work
                /\ pc[c] # "faulted" \/ targ[c] \notin Descriptors

C19_Witness ==
    \E c \in SecondaryIds :
        /\ pc[c] = "t286"
        /\ Reentries(c) = 0
        /\ cfg.F.size > 8
        /\ reg[c]["x20"] = TrampolineAddr
        /\ reg[c]["sp"] = fw[StartOf(c)].ctx

====
